---- MODULE Spec2Model ----
(***************************************************************************)
(* Model of the input_py crate (src/src/lib.rs): the prompt / read-line /  *)
(* post-process cycle of read_input_with_io, the pure function             *)
(* process_input, the Input builder, and the reader / writer traits with   *)
(* the test doubles of src/tests/common/mod.rs.                            *)
(*                                                                         *)
(* A string is a sequence of one-character strings.                        *)
(***************************************************************************)
EXTENDS Integers, Sequences, FiniteSets, TLC

\* ------------------------------------------------------------------------
\* Bounds
\* ------------------------------------------------------------------------
\* longest raw line handed to process_input in SpecPI
MaxLen == 4
\* most lines a source holds in Spec
MaxLines == 2
\* most calls made on one source / sink pair in Spec
MaxCalls == 2
\* most setter calls made on one builder in Spec
MaxSetters == 3

\* ------------------------------------------------------------------------
\* State
\* ------------------------------------------------------------------------
VARIABLES
    pc,             \* position of the current call
    entry,          \* entry point of the current call
    args,           \* prompt, default_value, trim_whitespace, show_prompt
    buf,            \* the line buffer of the current call
    result,         \* what the current call returned
    source,         \* the unread lines of the reader
    reader_fails,   \* the reader is a FailingReader
    sink,           \* the bytes the writer has accepted
    write_fails,    \* the writer's write_str fails
    flush_fails,    \* the writer's flush fails
    write_calls,    \* write_str calls made by the current call
    flush_calls,    \* flush calls made by the current call
    read_calls,     \* read_line calls made by the current call
    sink_before,    \* sink when the current call began
    source_before,  \* source when the current call began
    calls,          \* calls begun so far
    lines,          \* the lines the source was constructed with
    reads,          \* read_line calls the source has answered with Ok
    setter_calls,   \* setter calls made on the builder of the current call
    given,          \* what the caller passed to the entry point
    cause,          \* what InputError::source returned
    other,          \* a second call, on a reader and writer of its own
    demo            \* the demo program: position, steps performed, output

\* what a call of read_input_with_io leaves alone
aside == <<cause, other, demo>>

vars == <<pc, entry, args, buf, result, source, reader_fails, sink,
          write_fails, flush_fails, write_calls, flush_calls, read_calls,
          sink_before, source_before, calls,
          lines, reads, setter_calls, given, aside>>

\* ------------------------------------------------------------------------
\* Characters and strings
\* ------------------------------------------------------------------------
\* the characters raw lines are built from: a letter, the four whitespace
\* characters the documentation lists, and form feed, which str::trim also
\* treats as whitespace
Alphabet == {"a", " ", "\t", "\n", "\r", "\f"}

\* char::is_whitespace, as used by str::trim, restricted to Alphabet
White_Space == {" ", "\t", "\n", "\r", "\f"}

Strings(n) == UNION {[1..k -> Alphabet] : k \in 0..n}

\* Option<&str>
None == [some |-> FALSE, value |-> <<>>]
Some(v) == [some |-> TRUE, value |-> v]

\* Result<String, InputError>; NoResult while the call has not returned
NoResult == [kind |-> "None", value |-> <<>>]
Ok(v) == [kind |-> "Ok", value |-> v]
Err(k) == [kind |-> k, value |-> <<>>]

\* config::format::PROMPT_SUFFIX
PROMPT_SUFFIX == <<":">>

\* ------------------------------------------------------------------------
\* process_input
\* ------------------------------------------------------------------------
\* String::ends_with(char)
ends_with(s, c) == Len(s) > 0 /\ s[Len(s)] = c

\* String::pop: drop the last character
pop(s) == SubSeq(s, 1, Len(s) - 1)

RECURSIVE trim_start(_)
trim_start(s) ==
    IF s # <<>> /\ Head(s) \in White_Space THEN trim_start(Tail(s)) ELSE s

RECURSIVE trim_end(_)
trim_end(s) ==
    IF s # <<>> /\ s[Len(s)] \in White_Space THEN trim_end(pop(s)) ELSE s

\* trim that forgets the trailing whitespace
trim_start_only(s) == trim_start(s)

\* trim that forgets the leading whitespace
trim_end_only(s) == trim_end(s)

\* str::trim
trim(s) == trim_end(trim_start(s))

\* the trim branch substituting the default only for a raw input of ""
process_trimmed_raw_empty(input, default_value) ==
    IF input = <<>> /\ default_value.some
    THEN default_value.value
    ELSE trim(input)

\* the trim_whitespace branch of process_input
process_trimmed(input, default_value) ==
    LET trimmed == trim(input) IN
    IF trimmed = <<>> /\ default_value.some
    THEN default_value.value
    ELSE trimmed

\* terminator removal that also takes a "\r" no "\n" follows
strip_terminator_lone_cr(input) ==
    IF ends_with(input, "\n")
    THEN LET popped == pop(input) IN
         IF ends_with(popped, "\r") THEN pop(popped) ELSE popped
    ELSE IF ends_with(input, "\r") THEN pop(input) ELSE input

\* terminator removal without the test that the line ends in "\n"
strip_terminator_unchecked(input) ==
    LET popped == pop(input) IN
    IF ends_with(popped, "\r") THEN pop(popped) ELSE popped

\* the terminator removal of the preserve branch: one "\n", then one "\r"
\* if the "\n" was there
strip_terminator(input) ==
    IF ends_with(input, "\n")
    THEN LET popped == pop(input) IN
         IF ends_with(popped, "\r") THEN pop(popped) ELSE popped
    ELSE input

\* the preserve branch that never substitutes the default
process_preserved_no_default(input, default_value) == strip_terminator(input)

\* the preserve branch deciding the substitution as the trim branch does
process_preserved_blank_check(input, default_value) ==
    LET stripped == strip_terminator(input) IN
    IF trim(stripped) = <<>> /\ default_value.some
    THEN default_value.value
    ELSE stripped

\* the preserve branch handing the line back with its terminator
process_preserved_unstripped(input, default_value) ==
    IF strip_terminator(input) = <<>> /\ default_value.some
    THEN default_value.value
    ELSE input

\* the preserve branch of process_input
process_preserved(input, default_value) ==
    LET stripped == strip_terminator(input) IN
    IF stripped = <<>> /\ default_value.some
    THEN default_value.value
    ELSE stripped

process_input(input, default_value, trim_whitespace) ==
    IF trim_whitespace
    THEN process_trimmed(input, default_value)
    ELSE process_preserved(input, default_value)

\* ------------------------------------------------------------------------
\* read_input_with_io: prompt rendering and the three I/O steps
\* ------------------------------------------------------------------------
\* the condition without the test for an empty prompt
prompt_shown_flag_only(prompt, show_prompt) == show_prompt

\* the condition of line 136
prompt_shown(prompt, show_prompt) == show_prompt /\ prompt # <<>>

\* the rendered prompt without the test for an empty default
prompt_text_any_default(prompt, default_value) ==
    IF default_value.some
    THEN prompt \o <<" ", "[">> \o default_value.value \o <<"]">>
                \o PROMPT_SUFFIX
    ELSE prompt \o PROMPT_SUFFIX

\* the rendered prompt
prompt_text(prompt, default_value) ==
    IF default_value.some
    THEN IF default_value.value # <<>>
         THEN prompt \o <<" ", "[">> \o default_value.value \o <<"]">>
                     \o PROMPT_SUFFIX
         ELSE prompt \o PROMPT_SUFFIX
    ELSE prompt \o PROMPT_SUFFIX

\* a write_str failure that is ignored
after_write_ignored(failed) == [pc |-> "flush", result |-> NoResult]

\* a successful write_str followed by the read, without the flush
after_write_no_flush(failed) ==
    IF failed
    THEN [pc |-> "done", result |-> Err("WriteError")]
    ELSE [pc |-> "read", result |-> NoResult]

\* where the call goes after writer.write_str returned
after_write(failed) ==
    IF failed
    THEN [pc |-> "done", result |-> Err("WriteError")]
    ELSE [pc |-> "flush", result |-> NoResult]

\* a flush failure reported as a write failure
after_flush_as_write(failed) ==
    IF failed
    THEN [pc |-> "done", result |-> Err("WriteError")]
    ELSE [pc |-> "read", result |-> NoResult]

\* a failed flush answered by writing the prompt again
after_flush_retry(failed) ==
    IF failed
    THEN [pc |-> "write", result |-> NoResult]
    ELSE [pc |-> "read", result |-> NoResult]

\* a flush failure that is ignored
after_flush_ignored(failed) == [pc |-> "read", result |-> NoResult]

\* where the call goes after writer.flush returned
after_flush(failed) ==
    IF failed
    THEN [pc |-> "done", result |-> Err("FlushError")]
    ELSE [pc |-> "read", result |-> NoResult]

\* read_line reporting end-of-stream as a failure
read_line_eof_fails(src, failing) ==
    IF failing \/ src = <<>>
    THEN [ok |-> FALSE, buf |-> <<>>, rest |-> src]
    ELSE [ok |-> TRUE, buf |-> Head(src), rest |-> Tail(src)]

\* read_line that leaves the line it returned unread
read_line_no_advance(src, failing) ==
    IF failing
    THEN [ok |-> FALSE, buf |-> <<>>, rest |-> src]
    ELSE IF src = <<>>
         THEN [ok |-> TRUE, buf |-> <<>>, rest |-> src]
         ELSE [ok |-> TRUE, buf |-> Head(src), rest |-> src]

\* read_line taking its line from one process-wide source, whichever
\* reader it was called on
read_line_global_stdin(src, failing) ==
    IF failing
    THEN [ok |-> FALSE, buf |-> <<>>, rest |-> src]
    ELSE IF source = <<>>
         THEN [ok |-> TRUE, buf |-> <<>>, rest |-> <<>>]
         ELSE [ok |-> TRUE, buf |-> Head(source), rest |-> Tail(source)]

\* InputReader::read_line on a source holding the unread lines src: an
\* exhausted source reports Ok(0) and leaves the buffer empty
read_line(src, failing) ==
    IF failing
    THEN [ok |-> FALSE, buf |-> <<>>, rest |-> src]
    ELSE IF src = <<>>
         THEN [ok |-> TRUE, buf |-> <<>>, rest |-> src]
         ELSE [ok |-> TRUE, buf |-> Head(src), rest |-> Tail(src)]

\* a read failure replaced by the post-processing of the empty buffer
after_read_swallowed(r, default_value, trim_whitespace) ==
    Ok(process_input(r.buf, default_value, trim_whitespace))

\* the value read_input_with_io returns after reader.read_line returned
after_read(r, default_value, trim_whitespace) ==
    IF r.ok
    THEN Ok(process_input(r.buf, default_value, trim_whitespace))
    ELSE Err("ReadError")

\* prompts and defaults the calls of Spec are made with
Prompts == {<<>>, <<"P">>}
Defaults == {None, Some(<<>>), Some(<<"d">>)}

\* lines a line source produces: terminated ones, and an unterminated last
TerminatedLines == {<<"\n">>, <<"\r", "\n">>, <<" ", "\n">>, <<"a", "\n">>}
LastLines == {<<"a">>, <<" ">>}

Sources ==
    UNION {{s \in [1..k -> TerminatedLines \cup LastLines] :
                \A i \in 1..(k - 1) : s[i] \in TerminatedLines}
           : k \in 0..MaxLines}

NoArgs == [prompt |-> <<>>, default_value |-> None,
           trim_whitespace |-> TRUE, show_prompt |-> FALSE]

\* no second call
NoOther == [pc |-> "none"]

\* the demo program is not running
NoDemo == [at |-> "none"]

\* the parameters of an entry point, those it does not have left at the
\* values Input::new gives them
Given(comment, default, trim_whitespace) ==
    [comment |-> comment, default |-> default,
     trim_whitespace |-> trim_whitespace]

Init ==
    /\ pc = "idle"
    /\ entry = "none"
    /\ args = NoArgs
    /\ buf = <<>>
    /\ result = NoResult
    /\ source \in Sources
    /\ reader_fails \in BOOLEAN
    /\ sink = <<>>
    /\ write_fails \in BOOLEAN
    /\ flush_fails \in BOOLEAN
    /\ write_calls = 0
    /\ flush_calls = 0
    /\ read_calls = 0
    /\ sink_before = <<>>
    /\ source_before = source
    /\ calls = 0
    /\ lines = source
    /\ reads = 0
    /\ setter_calls = 0
    /\ given = Given(<<>>, None, TRUE)
    /\ cause = None
    /\ other = NoOther
    /\ demo = NoDemo

\* ------------------------------------------------------------------------
\* Actions
\* ------------------------------------------------------------------------
\* entering read_input_with_io with the given arguments
Enter(a, e) ==
    /\ args' = a
    /\ entry' = e
    /\ pc' = IF prompt_shown(a.prompt, a.show_prompt) THEN "write" ELSE "read"
    /\ buf' = <<>>
    /\ result' = NoResult
    /\ write_calls' = 0
    /\ flush_calls' = 0
    /\ read_calls' = 0
    /\ sink_before' = sink
    /\ source_before' = source
    /\ calls' = calls + 1
    /\ UNCHANGED <<source, reader_fails, sink, write_fails, flush_fails,
                   lines, reads, aside>>

\* a direct call read_input_with_io(prompt, default_value, trim, show, ..)
ReadInputWithIo ==
    /\ pc = "idle"
    /\ calls < MaxCalls
    /\ \E p \in Prompts, d \in Defaults, t \in BOOLEAN, s \in BOOLEAN :
          /\ Enter([prompt |-> p, default_value |-> d,
                    trim_whitespace |-> t, show_prompt |-> s], "direct")
          /\ given' = Given(p, d, t)
    /\ setter_calls' = 0

\* Input::new showing the prompt whatever it is
new_always_shown(prompt) ==
    [prompt |-> prompt, default_value |-> None,
     trim_whitespace |-> TRUE, show_prompt |-> TRUE]

\* Input::new(prompt)
new(prompt) == [prompt |-> prompt, default_value |-> None,
                trim_whitespace |-> TRUE, show_prompt |-> prompt # <<>>]

\* Input::default that also turns the prompt on
Input_default_shows(self, value) ==
    [self EXCEPT !.default_value = Some(value), !.show_prompt = TRUE]

\* Input::default(self, value)
Input_default(self, value) == [self EXCEPT !.default_value = Some(value)]

\* Input::trim(self, trim)
Input_trim(self, t) == [self EXCEPT !.trim_whitespace = t]

\* Input::show_prompt(self, show)
Input_show_prompt(self, show) == [self EXCEPT !.show_prompt = show]

\* the builder that input(comment) reads
input(comment) == new(comment)

\* input_with_default forgetting its default
input_with_default_dropped(comment, default) == new(comment)

\* the builder that input_with_default(comment, default) reads
input_with_default(comment, default) == Input_default(new(comment), default)

\* input_trim ignoring its flag
input_trim_ignored(comment, trim_whitespace) == new(comment)

\* the builder that input_trim(comment, trim_whitespace) reads
input_trim(comment, trim_whitespace) ==
    Input_trim(new(comment), trim_whitespace)

\* the values Input::default is called with
DefaultTexts == {d.value : d \in Defaults \ {None}}

InputNew ==
    /\ pc = "idle"
    /\ calls < MaxCalls
    /\ \E p \in Prompts :
          /\ args' = new(p)
          /\ given' = Given(p, None, TRUE)
    /\ pc' = "building"
    /\ entry' = "builder"
    /\ result' = NoResult
    /\ setter_calls' = 0
    /\ UNCHANGED <<buf, source, reader_fails, sink, write_fails, flush_fails,
                   write_calls, flush_calls, read_calls, sink_before,
                   source_before, calls, lines, reads, aside>>

\* Input::default(value)
InputDefault ==
    /\ pc = "building"
    /\ setter_calls < MaxSetters
    /\ \E v \in DefaultTexts : args' = Input_default(args, v)
    /\ setter_calls' = setter_calls + 1
    /\ UNCHANGED <<pc, entry, buf, result, source, reader_fails, sink,
                   write_fails, flush_fails, write_calls, flush_calls,
                   read_calls, sink_before, source_before, calls,
                   lines, reads, given, aside>>

\* Input::trim(trim)
InputTrim ==
    /\ pc = "building"
    /\ setter_calls < MaxSetters
    /\ \E t \in BOOLEAN : args' = Input_trim(args, t)
    /\ setter_calls' = setter_calls + 1
    /\ UNCHANGED <<pc, entry, buf, result, source, reader_fails, sink,
                   write_fails, flush_fails, write_calls, flush_calls,
                   read_calls, sink_before, source_before, calls,
                   lines, reads, given, aside>>

\* Input::show_prompt(show)
InputShowPrompt ==
    /\ pc = "building"
    /\ setter_calls < MaxSetters
    /\ \E sh \in BOOLEAN : args' = Input_show_prompt(args, sh)
    /\ setter_calls' = setter_calls + 1
    /\ UNCHANGED <<pc, entry, buf, result, source, reader_fails, sink,
                   write_fails, flush_fails, write_calls, flush_calls,
                   read_calls, sink_before, source_before, calls,
                   lines, reads, given, aside>>

\* input(comment): Input::new(comment).read()
InputFn ==
    /\ pc = "idle"
    /\ calls < MaxCalls
    /\ \E p \in Prompts :
          /\ Enter(input(p), "input")
          /\ given' = Given(p, None, TRUE)
    /\ setter_calls' = 0

\* input_with_default(comment, default):
\* Input::new(comment).default(default).read()
InputWithDefault ==
    /\ pc = "idle"
    /\ calls < MaxCalls
    /\ \E p \in Prompts, v \in DefaultTexts :
          /\ Enter(input_with_default(p, v), "input_with_default")
          /\ given' = Given(p, Some(v), TRUE)
    /\ setter_calls' = 1

\* input_trim(comment, trim_whitespace):
\* Input::new(comment).trim(trim_whitespace).read()
InputTrimFn ==
    /\ pc = "idle"
    /\ calls < MaxCalls
    /\ \E p \in Prompts, t \in BOOLEAN :
          /\ Enter(input_trim(p, t), "input_trim")
          /\ given' = Given(p, None, t)
    /\ setter_calls' = 1

\* Input::read_with_io: hands the four fields to read_input_with_io
InputReadWithIo ==
    /\ pc = "building"
    /\ Enter(args, "builder")
    /\ UNCHANGED <<setter_calls, given, aside>>

\* writer.write_str(&prompt_text)
WriteStr ==
    /\ pc = "write"
    /\ write_calls' = write_calls + 1
    /\ sink' = IF write_fails
               THEN sink
               ELSE sink \o prompt_text(args.prompt, args.default_value)
    /\ pc' = after_write(write_fails).pc
    /\ result' = after_write(write_fails).result
    /\ UNCHANGED <<entry, args, buf, source, reader_fails, write_fails,
                   flush_fails, flush_calls, read_calls, sink_before,
                   source_before, calls,
                   lines, reads, setter_calls, given, aside>>

\* writer.flush()
Flush ==
    /\ pc = "flush"
    /\ flush_calls' = flush_calls + 1
    /\ pc' = after_flush(flush_fails).pc
    /\ result' = after_flush(flush_fails).result
    /\ UNCHANGED <<entry, args, buf, source, reader_fails, sink, write_fails,
                   flush_fails, write_calls, read_calls, sink_before,
                   source_before, calls,
                   lines, reads, setter_calls, given, aside>>

\* reader.read_line(&mut buf), then process_input and return
ReadLine ==
    /\ pc = "read"
    /\ LET r == read_line(source, reader_fails) IN
          /\ buf' = r.buf
          /\ source' = r.rest
          /\ result' = after_read(r, args.default_value, args.trim_whitespace)
    /\ read_calls' = read_calls + 1
    /\ reads' = IF read_line(source, reader_fails).ok
                THEN reads + 1
                ELSE reads
    /\ pc' = "done"
    /\ UNCHANGED <<entry, args, reader_fails, sink, write_fails, flush_fails,
                   write_calls, flush_calls, sink_before, source_before,
                   calls, lines, setter_calls, given, aside>>

\* the caller takes the result; the pair is free for the next call
Return ==
    /\ pc = "done"
    /\ pc' = "idle"
    /\ UNCHANGED <<entry, args, buf, result, source, reader_fails, sink,
                   write_fails, flush_fails, write_calls, flush_calls,
                   read_calls, sink_before, source_before, calls,
                   lines, reads, setter_calls, given, aside>>

Next ==
    \/ ReadInputWithIo
    \/ InputNew
    \/ InputDefault
    \/ InputTrim
    \/ InputShowPrompt
    \/ InputReadWithIo
    \/ InputFn
    \/ InputWithDefault
    \/ InputTrimFn
    \/ WriteStr
    \/ Flush
    \/ ReadLine
    \/ Return

Spec == Init /\ [][Next]_vars

\* ------------------------------------------------------------------------
\* process_input on its own: every raw line up to MaxLen
\* ------------------------------------------------------------------------
\* defaults process_input is applied with; they share characters with the
\* raw lines
PIDefaults == {None, Some(<<>>), Some(<<"a">>), Some(<<" ", "a">>),
               Some(<<"a", "\r">>), Some(<<"a", "\n">>), Some(<<" ">>)}

InitPI ==
    /\ pc = "process"
    /\ entry = "process_input"
    /\ \E d \in PIDefaults, t \in BOOLEAN :
          args = [prompt |-> <<>>, default_value |-> d,
                  trim_whitespace |-> t, show_prompt |-> FALSE]
    /\ buf \in Strings(MaxLen)
    /\ result = NoResult
    /\ source = <<>>
    /\ reader_fails = FALSE
    /\ sink = <<>>
    /\ write_fails = FALSE
    /\ flush_fails = FALSE
    /\ write_calls = 0
    /\ flush_calls = 0
    /\ read_calls = 0
    /\ sink_before = <<>>
    /\ source_before = <<>>
    /\ calls = 0
    /\ lines = <<>>
    /\ reads = 0
    /\ setter_calls = 0
    /\ given = Given(<<>>, None, TRUE)
    /\ cause = None
    /\ other = NoOther
    /\ demo = NoDemo

\* process_input(buf, default_value, trim_whitespace)
ProcessInput ==
    /\ pc = "process"
    /\ result' = Ok(process_input(buf, args.default_value,
                                  args.trim_whitespace))
    /\ pc' = "processed"
    /\ UNCHANGED <<entry, args, buf, source, reader_fails, sink, write_fails,
                   flush_fails, write_calls, flush_calls, read_calls,
                   sink_before, source_before, calls,
                   lines, reads, setter_calls, given, aside>>

NextPI == ProcessInput

SpecPI == InitPI /\ [][NextPI]_vars

\* ------------------------------------------------------------------------
\* Two calls at once, each on a reader and a writer of its own
\* ------------------------------------------------------------------------
\* the sources the two readers are constructed with
PairSources == {<<>>, <<<<"a", "\n">>>>, <<<<" ", "\n">>, <<"a">>>>}

\* which operation of a pair fails, if any
PairFailures ==
    {[write |-> FALSE, flush |-> FALSE, read |-> FALSE],
     [write |-> TRUE, flush |-> FALSE, read |-> FALSE],
     [write |-> FALSE, flush |-> TRUE, read |-> FALSE],
     [write |-> FALSE, flush |-> FALSE, read |-> TRUE]}

\* the second caller, before its call, with the reader and writer it owns
OtherPair(src, f) ==
    [pc |-> "idle", args |-> NoArgs, buf |-> <<>>, result |-> NoResult,
     source |-> src, lines |-> src, sink |-> <<>>,
     write_fails |-> f.write, flush_fails |-> f.flush,
     reader_fails |-> f.read, overlapped |-> FALSE]

\* the first call is between its first step and its return
MidCall == pc \in {"write", "flush", "read"} /\ write_calls + flush_calls > 0

InitC ==
    /\ pc = "idle"
    /\ entry = "none"
    /\ args = NoArgs
    /\ buf = <<>>
    /\ result = NoResult
    /\ source \in PairSources
    /\ sink = <<>>
    /\ \E f \in PairFailures :
          /\ write_fails = f.write
          /\ flush_fails = f.flush
          /\ reader_fails = f.read
    /\ write_calls = 0
    /\ flush_calls = 0
    /\ read_calls = 0
    /\ sink_before = <<>>
    /\ source_before = source
    /\ calls = 0
    /\ lines = source
    /\ reads = 0
    /\ setter_calls = 0
    /\ given = Given(<<>>, None, TRUE)
    /\ cause = None
    /\ \E src \in PairSources, f \in PairFailures : other = OtherPair(src, f)
    /\ demo = NoDemo

\* the second caller enters read_input_with_io
OtherCall ==
    /\ other.pc = "idle"
    /\ \E p \in Prompts, d \in {None, Some(<<"d">>)},
          t \in BOOLEAN, s \in BOOLEAN :
          other' = [other EXCEPT
                      !.args = [prompt |-> p, default_value |-> d,
                                trim_whitespace |-> t, show_prompt |-> s],
                      !.pc = IF prompt_shown(p, s) THEN "write" ELSE "read",
                      !.overlapped = other.overlapped \/ MidCall]
    /\ UNCHANGED <<pc, entry, args, buf, result, source, reader_fails, sink,
                   write_fails, flush_fails, write_calls, flush_calls,
                   read_calls, sink_before, source_before, calls, lines,
                   reads, setter_calls, given, cause, demo>>

\* the second call's writer.write_str(&prompt_text)
OtherWriteStr ==
    /\ other.pc = "write"
    /\ other' = [other EXCEPT
                   !.sink = IF other.write_fails
                            THEN other.sink
                            ELSE other.sink
                                 \o prompt_text(other.args.prompt,
                                                other.args.default_value),
                   !.pc = after_write(other.write_fails).pc,
                   !.result = after_write(other.write_fails).result,
                   !.overlapped = other.overlapped \/ MidCall]
    /\ UNCHANGED <<pc, entry, args, buf, result, source, reader_fails, sink,
                   write_fails, flush_fails, write_calls, flush_calls,
                   read_calls, sink_before, source_before, calls, lines,
                   reads, setter_calls, given, cause, demo>>

\* the second call's writer.flush()
OtherFlush ==
    /\ other.pc = "flush"
    /\ other' = [other EXCEPT
                   !.pc = after_flush(other.flush_fails).pc,
                   !.result = after_flush(other.flush_fails).result,
                   !.overlapped = other.overlapped \/ MidCall]
    /\ UNCHANGED <<pc, entry, args, buf, result, source, reader_fails, sink,
                   write_fails, flush_fails, write_calls, flush_calls,
                   read_calls, sink_before, source_before, calls, lines,
                   reads, setter_calls, given, cause, demo>>

\* the second call's reader.read_line(&mut buf), process_input and return
OtherReadLine ==
    /\ other.pc = "read"
    /\ LET r == read_line(other.source, other.reader_fails) IN
          other' = [other EXCEPT
                      !.buf = r.buf,
                      !.source = r.rest,
                      !.result = after_read(r, other.args.default_value,
                                            other.args.trim_whitespace),
                      !.pc = "done",
                      !.overlapped = other.overlapped \/ MidCall]
    /\ UNCHANGED <<pc, entry, args, buf, result, source, reader_fails, sink,
                   write_fails, flush_fails, write_calls, flush_calls,
                   read_calls, sink_before, source_before, calls, lines,
                   reads, setter_calls, given, cause, demo>>

NextC ==
    \/ ReadInputWithIo
    \/ WriteStr
    \/ Flush
    \/ ReadLine
    \/ OtherCall
    \/ OtherWriteStr
    \/ OtherFlush
    \/ OtherReadLine

SpecC == InitC /\ [][NextC]_vars

\* ------------------------------------------------------------------------
\* InputError: Display and Error::source
\* ------------------------------------------------------------------------
\* config::errors; each prefix is written as one element of the string
WRITE_ERROR_PREFIX == <<"Failed to write to stdout">>
FLUSH_ERROR_PREFIX == <<"Failed to flush stdout">>
READ_ERROR_PREFIX == <<"Failed to read from stdin">>

ErrorKinds == {"WriteError", "FlushError", "ReadError"}

\* an InputError of the given variant wrapping an io::Error whose message
\* is msg
InputError(kind, msg) == [kind |-> kind, value |-> msg]

\* Display::fmt that leaves the underlying message out
fmt_prefix_only(e) ==
    CASE e.kind = "WriteError" -> WRITE_ERROR_PREFIX
      [] e.kind = "FlushError" -> FLUSH_ERROR_PREFIX
      [] e.kind = "ReadError" -> READ_ERROR_PREFIX

\* <InputError as Display>::fmt: "{prefix}: {e}"
fmt(e) ==
    CASE e.kind = "WriteError" -> WRITE_ERROR_PREFIX \o <<":", " ">> \o e.value
      [] e.kind = "FlushError" -> FLUSH_ERROR_PREFIX \o <<":", " ">> \o e.value
      [] e.kind = "ReadError" -> READ_ERROR_PREFIX \o <<":", " ">> \o e.value

\* <InputError as Error>::source
error_source(e) ==
    CASE e.kind = "WriteError" -> Some(e.value)
      [] e.kind = "FlushError" -> Some(e.value)
      [] e.kind = "ReadError" -> Some(e.value)

\* an InputError of any variant, around an io::Error of any message
InitErr ==
    /\ pc = "error"
    /\ entry = "InputError"
    /\ args = NoArgs
    /\ buf = <<>>
    /\ \E k \in ErrorKinds, m \in Strings(MaxLen) : result = InputError(k, m)
    /\ source = <<>>
    /\ reader_fails = FALSE
    /\ sink = <<>>
    /\ write_fails = FALSE
    /\ flush_fails = FALSE
    /\ write_calls = 0
    /\ flush_calls = 0
    /\ read_calls = 0
    /\ sink_before = <<>>
    /\ source_before = <<>>
    /\ calls = 0
    /\ lines = <<>>
    /\ reads = 0
    /\ setter_calls = 0
    /\ given = Given(<<>>, None, TRUE)
    /\ cause = None
    /\ other = NoOther
    /\ demo = NoDemo

\* error.to_string(): fmt writes into the formatter
ErrorFmt ==
    /\ pc \in {"error", "sourced"}
    /\ sink' = sink \o fmt(result)
    /\ pc' = IF pc = "error" THEN "formatted" ELSE "inspected"
    /\ UNCHANGED <<entry, args, buf, result, source, reader_fails,
                   write_fails, flush_fails, write_calls, flush_calls,
                   read_calls, sink_before, source_before, calls, lines,
                   reads, setter_calls, given, other, demo, cause>>

\* error.source()
ErrorSource ==
    /\ pc \in {"error", "formatted"}
    /\ cause' = error_source(result)
    /\ pc' = IF pc = "error" THEN "sourced" ELSE "inspected"
    /\ UNCHANGED <<entry, args, buf, result, source, reader_fails, sink,
                   write_fails, flush_fails, write_calls, flush_calls,
                   read_calls, sink_before, source_before, calls, lines,
                   reads, setter_calls, given, other, demo>>

NextErr == ErrorFmt \/ ErrorSource

SpecErr == InitErr /\ [][NextErr]_vars

\* ------------------------------------------------------------------------
\* The demo program (src/main.rs)
\* ------------------------------------------------------------------------
\* config::demo; each constant text is written as one element
TITLE == <<"=== input_py Demo ===">>
DEFAULT_PORT == <<"8", "0", "8", "0">>
NAME == <<"Enter your name">>
PORT == <<"Enter port">>
TEXT_PRESERVED == <<"Enter text (whitespace preserved)">>
TEXT_TRIMMED == <<"Enter text (whitespace trimmed)">>
EMPTY_PROMPT == <<>>
NO_NAME_ENTERED == <<"No name entered!">>
DEMO_COMPLETED == <<"Demo completed successfully!">>

\* the number of input steps of main
DemoSteps == 5

\* the demo program before main runs
DemoStart == [at |-> "start", step |-> 0, performed |-> <<>>,
              stderr |-> <<>>]

\* the library call main makes at each of its steps
demo_call(step) ==
    CASE step = 1 ->
            [args |-> input(NAME), entry |-> "input",
             given |-> Given(NAME, None, TRUE), setters |-> 0]
      [] step = 2 ->
            [args |-> input_with_default(PORT, DEFAULT_PORT),
             entry |-> "input_with_default",
             given |-> Given(PORT, Some(DEFAULT_PORT), TRUE), setters |-> 1]
      [] step = 3 ->
            [args |-> input_trim(TEXT_PRESERVED, FALSE),
             entry |-> "input_trim",
             given |-> Given(TEXT_PRESERVED, None, FALSE), setters |-> 1]
      [] step = 4 ->
            [args |-> input_trim(TEXT_TRIMMED, TRUE),
             entry |-> "input_trim",
             given |-> Given(TEXT_TRIMMED, None, TRUE), setters |-> 1]
      [] step = 5 ->
            [args |-> input(EMPTY_PROMPT), entry |-> "input",
             given |-> Given(EMPTY_PROMPT, None, TRUE), setters |-> 0]

\* the heading main prints before each step
heading(step) ==
    CASE step = 1 -> <<"1. Basic input example:", "\n">>
      [] step = 2 -> <<"\n", "2. Input with default value:", "\n">>
      [] step = 3 -> <<"\n", "3. Input with preserved whitespace:", "\n">>
      [] step = 4 -> <<"\n", "4. Input with trimming:", "\n">>
      [] step = 5 -> <<"\n", "5. Empty prompt example:", "\n">>

\* the line main prints in the Ok arm of each step
ok_line(step, v) ==
    CASE step = 1 -> IF v = <<>>
                     THEN NO_NAME_ENTERED \o <<"\n">>
                     ELSE <<"Hello, ">> \o v \o <<"!", "\n">>
      [] step = 2 -> <<"Using port: ">> \o v \o <<"\n">>
      [] step = 3 -> <<"Raw input: '">> \o v \o <<"'", "\n">>
      [] step = 4 -> <<"Trimmed input: '">> \o v \o <<"'", "\n">>
      [] step = 5 -> <<"You entered: '">> \o v \o <<"'", "\n">>

\* the line main prints to stderr in the Err arm of each step
err_line(step, e) ==
    CASE step \in {1, 5} -> <<"Error reading input: ">> \o fmt(e) \o <<"\n">>
      [] step = 2 -> <<"Error reading port: ">> \o fmt(e) \o <<"\n">>
      [] step \in {3, 4} -> <<"Error reading text: ">> \o fmt(e) \o <<"\n">>

\* a match that goes on to the next step whatever the step returned
after_match_continue(r, step) ==
    IF step = DemoSteps THEN "completing" ELSE "heading"

\* where main goes after the match on a step's result: the Err arm returns
after_match(r, step) ==
    IF r.kind # "Ok" THEN "returned"
    ELSE IF step = DemoSteps THEN "completing" ELSE "heading"

InitDemo ==
    /\ pc = "idle"
    /\ entry = "none"
    /\ args = NoArgs
    /\ buf = <<>>
    /\ result = NoResult
    /\ source \in Sources
    /\ reader_fails = FALSE
    /\ sink = <<>>
    /\ write_fails = FALSE
    /\ flush_fails = FALSE
    /\ write_calls = 0
    /\ flush_calls = 0
    /\ read_calls = 0
    /\ sink_before = <<>>
    /\ source_before = source
    /\ calls = 0
    /\ lines = source
    /\ reads = 0
    /\ setter_calls = 0
    /\ given = Given(<<>>, None, TRUE)
    /\ cause = None
    /\ other = NoOther
    /\ demo = DemoStart

\* println!("{}\n", TITLE); println! panics when stdout cannot be written
DemoTitle ==
    /\ demo.at = "start"
    /\ pc = "idle"
    /\ IF write_fails
       THEN /\ demo' = [demo EXCEPT !.at = "panicked"]
            /\ sink' = sink
       ELSE /\ demo' = [demo EXCEPT !.at = "heading", !.step = 1]
            /\ sink' = sink \o TITLE \o <<"\n", "\n">>
    /\ pc' = pc
    /\ UNCHANGED <<entry, args, buf, result, source, reader_fails,
                   write_fails, flush_fails, write_calls, flush_calls,
                   read_calls, sink_before, source_before, calls, lines,
                   reads, setter_calls, given, cause, other>>

\* println!("1. Basic input example:") and the headings of the later steps
DemoHeading ==
    /\ demo.at = "heading"
    /\ pc = "idle"
    /\ IF write_fails
       THEN /\ demo' = [demo EXCEPT !.at = "panicked"]
            /\ sink' = sink
       ELSE /\ demo' = [demo EXCEPT !.at = "call"]
            /\ sink' = sink \o heading(demo.step)
    /\ pc' = pc
    /\ UNCHANGED <<entry, args, buf, result, source, reader_fails,
                   write_fails, flush_fails, write_calls, flush_calls,
                   read_calls, sink_before, source_before, calls, lines,
                   reads, setter_calls, given, cause, other>>

\* the library call of the current step
DemoCall ==
    /\ demo.at = "call"
    /\ pc = "idle"
    /\ calls = demo.step - 1
    /\ Enter(demo_call(demo.step).args, demo_call(demo.step).entry)
    /\ given' = demo_call(demo.step).given
    /\ setter_calls' = demo_call(demo.step).setters

\* the match on what the call returned: the Ok arm prints the value, the
\* Err arm prints the error to stderr and returns from main
DemoMatch ==
    /\ demo.at = "call"
    /\ pc = "done"
    /\ pc' = "idle"
    /\ LET done == Append(demo.performed,
                          [entry |-> entry, given |-> given,
                           ok |-> result.kind = "Ok"])
       IN  IF result.kind = "Ok" /\ write_fails
           THEN /\ demo' = [demo EXCEPT !.at = "panicked",
                                        !.performed = done]
                /\ sink' = sink
           ELSE IF result.kind = "Ok"
           THEN /\ demo' = [demo EXCEPT
                              !.at = after_match(result, demo.step),
                              !.step = IF demo.step = DemoSteps
                                       THEN demo.step
                                       ELSE demo.step + 1,
                              !.performed = done]
                /\ sink' = sink \o ok_line(demo.step, result.value)
           ELSE /\ demo' = [demo EXCEPT
                              !.at = after_match(result, demo.step),
                              !.step = IF after_match(result, demo.step)
                                          = "heading"
                                       THEN demo.step + 1
                                       ELSE demo.step,
                              !.performed = done,
                              !.stderr = demo.stderr
                                         \o err_line(demo.step, result)]
                /\ sink' = sink
    /\ UNCHANGED <<entry, args, buf, result, source, reader_fails,
                   write_fails, flush_fails, write_calls, flush_calls,
                   read_calls, sink_before, source_before, calls, lines,
                   reads, setter_calls, given, cause, other>>

\* println!("\n{}", messages::DEMO_COMPLETED)
DemoCompleted ==
    /\ demo.at = "completing"
    /\ pc = "idle"
    /\ IF write_fails
       THEN /\ demo' = [demo EXCEPT !.at = "panicked"]
            /\ sink' = sink
       ELSE /\ demo' = [demo EXCEPT !.at = "completed"]
            /\ sink' = sink \o <<"\n">> \o DEMO_COMPLETED \o <<"\n">>
    /\ pc' = pc
    /\ UNCHANGED <<entry, args, buf, result, source, reader_fails,
                   write_fails, flush_fails, write_calls, flush_calls,
                   read_calls, sink_before, source_before, calls, lines,
                   reads, setter_calls, given, cause, other>>

\* the terminal goes away while main runs: from here on stdout cannot be
\* written, or cannot be flushed, or stdin cannot be read
Break ==
    /\ demo.at \in {"start", "heading", "call", "completing"}
    /\ pc = "idle"
    /\ ~write_fails /\ ~flush_fails /\ ~reader_fails
    /\ \E f \in PairFailures :
          /\ f.write \/ f.flush \/ f.read
          /\ write_fails' = f.write
          /\ flush_fails' = f.flush
          /\ reader_fails' = f.read
    /\ UNCHANGED <<pc, entry, args, buf, result, source, sink, write_calls,
                   flush_calls, read_calls, sink_before, source_before,
                   calls, lines, reads, setter_calls, given, aside>>

NextDemo ==
    \/ DemoTitle
    \/ DemoHeading
    \/ DemoCall
    \/ WriteStr
    \/ Flush
    \/ ReadLine
    \/ DemoMatch
    \/ DemoCompleted
    \/ Break

SpecDemo == InitDemo /\ [][NextDemo]_vars

\* ------------------------------------------------------------------------
\* Properties of the prompt step (Spec)
\* ------------------------------------------------------------------------
\* the current call is past its entry: it is inside read_input_with_io or
\* has returned from it
InCall == pc \in {"write", "flush", "read", "done"}

\* the current call is one whose prompt is to be shown
ShowsPrompt == args.show_prompt /\ args.prompt # <<>>

\* the text the documentation gives for the prompt of the current call
ExpectedPrompt ==
    IF args.default_value.some /\ args.default_value.value # <<>>
    THEN args.prompt \o <<" ", "[">> \o args.default_value.value
                     \o <<"]", ":">>
    ELSE args.prompt \o <<":">>

\* C1: a call with show_prompt = true and a non-empty prompt p writes to the
\* sink exactly p + " [" + d + "]:" when a default d is present and
\* non-empty, exactly p + ":" when the default is absent or empty, and
\* nothing else: one write_str call, and before it (or when it fails) the
\* sink is as the call found it.
C1_PromptText ==
    (InCall /\ ShowsPrompt) =>
        /\ write_calls <= 1
        /\ (write_calls = 1 /\ ~write_fails) =>
                sink = sink_before \o ExpectedPrompt
        /\ (write_calls = 0 \/ write_fails) => sink = sink_before

C1_Witness ==
    /\ pc = "done"
    /\ result.kind = "Ok"
    /\ args.prompt = <<"P">>
    /\ args.default_value = Some(<<"d">>)
    /\ sink_before = <<>>
    /\ sink = <<"P", " ", "[", "d", "]", ":">>

\* C2: if show_prompt is false or the prompt is empty, the sink receives no
\* write_str call and no flush call and its content is untouched, from
\* either entry point; so the outcome is that of the read alone, and the
\* call succeeds with a sink whose write and flush always fail.
C2_HiddenPromptNoSinkUse ==
    (InCall /\ (~args.show_prompt \/ args.prompt = <<>>)) =>
        /\ write_calls = 0
        /\ flush_calls = 0
        /\ sink = sink_before
        /\ pc # "write" /\ pc # "flush"
        /\ (pc = "done" /\ ~reader_fails) => result.kind = "Ok"

C2_Witness ==
    /\ pc = "done"
    /\ entry = "builder"
    /\ args.prompt = <<>>
    /\ args.show_prompt
    /\ args.default_value = Some(<<"d">>)
    /\ write_fails
    /\ flush_fails
    /\ result.kind = "Ok"

C4_FlushErrorStopsCall ==
    (pc = "done" /\ ShowsPrompt /\ ~write_fails /\ flush_fails) =>
        /\ result = Err("FlushError")
        /\ flush_calls = 1
        /\ read_calls = 0
        /\ source = source_before

C4_Witness ==
    /\ pc = "done"
    /\ ShowsPrompt
    /\ ~write_fails
    /\ flush_fails
    /\ reader_fails
    /\ source # <<>>
    /\ sink = sink_before \o ExpectedPrompt
    /\ result = Err("FlushError")

\* ------------------------------------------------------------------------
\* Properties of the read step (Spec)
\* ------------------------------------------------------------------------
\* C5: if the prompt step did not fail and read_line returns an error, the
\* call returns ReadError whatever the trim flag and the default are: never
\* the default, never an empty string.
C5_ReadErrorNotSwallowed ==
    (pc = "done" /\ read_calls = 1 /\ reader_fails) =>
        result = Err("ReadError")

C5_Witness ==
    /\ pc = "done"
    /\ read_calls = 1
    /\ reader_fails
    /\ args.default_value = Some(<<"d">>)
    /\ ~args.trim_whitespace
    /\ result = Err("ReadError")

\* C6: when the source reports end-of-stream, the call does not fail: it
\* returns Ok(default) when a default is present and Ok("") otherwise, in
\* trim mode and in preserve mode.
C6_EndOfStreamIsInput ==
    (pc = "done" /\ read_calls = 1 /\ ~reader_fails /\ source_before = <<>>)
        => /\ buf = <<>>
           /\ result = Ok(IF args.default_value.some
                          THEN args.default_value.value
                          ELSE <<>>)

C6_Witness ==
    /\ pc = "done"
    /\ read_calls = 1
    /\ ~reader_fails
    /\ source_before = <<>>
    /\ calls = 2
    /\ ~args.trim_whitespace
    /\ args.default_value = Some(<<"d">>)
    /\ result = Ok(<<"d">>)

\* ------------------------------------------------------------------------
\* Properties of process_input (SpecPI)
\* ------------------------------------------------------------------------
\* process_input has been applied to buf
Processed == pc = "processed"

\* the whitespace characters the documentation lists
ListedWhitespace == {" ", "\t", "\n", "\r"}

\* the characters str::trim removes, among those of the alphabet: the
\* listed ones and form feed
TrimmedWhitespace == ListedWhitespace \cup {"\f"}

\* s without its leading and trailing characters of ws, given that s has a
\* character outside ws: the span from the first such character to the last
Stripped(s, ws) ==
    LET keep == {i \in 1..Len(s) : s[i] \notin ws}
        first == CHOOSE i \in keep : \A j \in keep : i <= j
        last == CHOOSE i \in keep : \A j \in keep : j <= i
    IN SubSeq(s, first, last)

\* C7: in trim mode, for every raw input that is empty or only whitespace,
\* the result is the default d verbatim when one is present (d empty or not,
\* d not trimmed) and "" when there is none.
C7_TrimDefaultLaw ==
    (Processed /\ args.trim_whitespace
        /\ \A i \in 1..Len(buf) : buf[i] \in TrimmedWhitespace) =>
        result = Ok(IF args.default_value.some
                    THEN args.default_value.value
                    ELSE <<>>)

C7_Witness ==
    /\ Processed
    /\ args.trim_whitespace
    /\ buf = <<" ", "\t", "\r", "\n">>
    /\ args.default_value = Some(<<" ", "a">>)
    /\ result = Ok(<<" ", "a">>)

\* C8 as stated: in trim mode, for every raw input with a character other
\* than space, tab, newline and carriage return, the result is the raw input
\* without its leading and trailing characters of these four, whether or not
\* a default is present.
C8_Original ==
    (Processed /\ args.trim_whitespace
        /\ \E i \in 1..Len(buf) : buf[i] \notin ListedWhitespace) =>
        result = Ok(Stripped(buf, ListedWhitespace))

\* C8 amended: in trim mode, for every raw input with a character that
\* str::trim does not count as whitespace, the result is the raw input
\* without its leading and trailing whitespace in the sense of str::trim
\* (the four listed characters and the other White_Space characters, such as
\* form feed), interior characters unchanged, whether or not a default is
\* present.
C8_TrimKeepsContent ==
    (Processed /\ args.trim_whitespace
        /\ \E i \in 1..Len(buf) : buf[i] \notin TrimmedWhitespace) =>
        result = Ok(Stripped(buf, TrimmedWhitespace))

C8_Witness ==
    /\ Processed
    /\ args.trim_whitespace
    /\ buf = <<"\t", "a", " ", "a">>
    /\ args.default_value = Some(<<"a">>)
    /\ result = Ok(<<"a", " ", "a">>)

\* raw without one trailing "\r\n", or else without one trailing "\n"
WithoutTerminator(s) ==
    IF Len(s) >= 2 /\ s[Len(s) - 1] = "\r" /\ s[Len(s)] = "\n"
    THEN SubSeq(s, 1, Len(s) - 2)
    ELSE IF Len(s) >= 1 /\ s[Len(s)] = "\n"
         THEN SubSeq(s, 1, Len(s) - 1)
         ELSE s

\* C9: in preserve mode process_input removes at most one trailing line
\* terminator, a trailing "\n" with the "\r" right before it if any, and
\* nothing else: a raw input not ending in "\n" is returned unchanged and
\* all other whitespace is kept (wherever no default is substituted).
C9_PreserveStripsOneTerminator ==
    (Processed /\ ~args.trim_whitespace
        /\ (~args.default_value.some \/ WithoutTerminator(buf) # <<>>)) =>
        /\ result = Ok(WithoutTerminator(buf))
        /\ (~ends_with(buf, "\n")) => result = Ok(buf)
        /\ Len(buf) - Len(result.value) <= 2

C9_Witness ==
    /\ Processed
    /\ ~args.trim_whitespace
    /\ buf = <<" ", "a", " ", "\n">>
    /\ args.default_value = Some(<<"a">>)
    /\ result = Ok(<<" ", "a", " ">>)

\* the raw inputs that are nothing but a line terminator
OnlyTerminator == {<<>>, <<"\n">>, <<"\r", "\n">>}

\* C10 as stated: in preserve mode with a present default d, the result
\* equals d if and only if the raw input is exactly "", "\n" or "\r\n".
C10_Original ==
    (Processed /\ ~args.trim_whitespace /\ args.default_value.some) =>
        (result = Ok(args.default_value.value) <=> buf \in OnlyTerminator)

\* the raw inputs on which the user typed d itself: d followed by the
\* terminator that preserve mode removes
TypedDefault(d) ==
    {d \o <<"\r", "\n">>}
        \cup (IF ends_with(d, "\r") THEN {} ELSE {d \o <<"\n">>})
        \cup (IF ends_with(d, "\n") THEN {} ELSE {d})

\* C10 amended: in preserve mode with a present default d, the result is d
\* whenever the raw input is exactly "", "\n" or "\r\n"; for every other raw
\* input the result is the raw input without its terminator, so it equals d
\* if and only if the user typed d itself (raw is d + "\r\n", or d + "\n"
\* with d not ending in "\r", or d with d not ending in "\n").
C10_PreserveDefaultLaw ==
    (Processed /\ ~args.trim_whitespace /\ args.default_value.some) =>
        LET d == args.default_value.value IN
        /\ buf \in OnlyTerminator => result = Ok(d)
        /\ buf \notin OnlyTerminator => result = Ok(WithoutTerminator(buf))
        /\ result = Ok(d) <=>
                (buf \in OnlyTerminator \/ buf \in TypedDefault(d))

C10_Witness ==
    /\ Processed
    /\ ~args.trim_whitespace
    /\ buf = <<"\r", "\n">>
    /\ args.default_value = Some(<<" ", "a">>)
    /\ result = Ok(<<" ", "a">>)

\* a run of n spaces
Spaces(n) == [i \in 1..n |-> " "]

\* the raw inputs that are one or more spaces and an optional terminator
SpaceOnlyLines ==
    {Spaces(n) \o t : n \in 1..MaxLen, t \in OnlyTerminator}

\* the spaces of a space-only line
SpacesOf(s) == Spaces(Cardinality({i \in 1..Len(s) : s[i] = " "}))

\* C11 as stated: for a raw input of one or more spaces and an optional
\* line terminator and a present default d, trim mode returns d while
\* preserve mode returns the spaces themselves, never d.
C11_Original ==
    (Processed /\ buf \in SpaceOnlyLines /\ args.default_value.some) =>
        IF args.trim_whitespace
        THEN result = Ok(args.default_value.value)
        ELSE /\ result = Ok(SpacesOf(buf))
             /\ result # Ok(args.default_value.value)

\* C11 amended: for a raw input of one or more spaces and an optional line
\* terminator and a present default d, trim mode returns d while preserve
\* mode returns the spaces themselves (terminator removed); the default is
\* not substituted, so the preserve result is d only when d is that very run
\* of spaces.
C11_SpaceOnlyAsymmetry ==
    (Processed /\ buf \in SpaceOnlyLines /\ args.default_value.some) =>
        IF args.trim_whitespace
        THEN result = Ok(args.default_value.value)
        ELSE /\ result = Ok(SpacesOf(buf))
             /\ (result = Ok(args.default_value.value)
                    <=> args.default_value.value = SpacesOf(buf))

C11_Witness ==
    /\ Processed
    /\ ~args.trim_whitespace
    /\ buf = <<" ", " ", "\r", "\n">>
    /\ args.default_value = Some(<<"a">>)
    /\ result = Ok(<<" ", " ">>)

\* ------------------------------------------------------------------------
\* Properties of calls sharing one source and sink (Spec)
\* ------------------------------------------------------------------------
\* lines of the source not yet handed out, by the count of answered reads
Unread == SubSeq(lines, reads + 1, Len(lines))

\* C12: calls made one after another on a source holding l1..ln consume it
\* in order: the k-th read_line the source answers (k <= n) hands out lk,
\* the call that made it returns the post-processing of lk, and the lines
\* after lk are all still unread; when every call so far has reached its
\* read, that call is the k-th call.
C12_SequentialConsumption ==
    /\ reads <= Len(lines) => source = Unread
    /\ reads <= calls
    /\ (pc = "done" /\ read_calls = 1 /\ ~reader_fails
            /\ reads <= Len(lines)) =>
        /\ buf = lines[reads]
        /\ result = Ok(process_input(lines[reads], args.default_value,
                                     args.trim_whitespace))

C12_Witness ==
    /\ pc = "done"
    /\ calls = 2
    /\ reads = 2
    /\ lines = <<(<<"a", "\n">>), (<<" ", "\n">>)>>
    /\ ~args.trim_whitespace
    /\ buf = <<" ", "\n">>
    /\ result = Ok(<<" ">>)
    /\ source = <<>>

\* C13: in a call that shows a prompt, write_str of the rendered prompt
\* comes first, then flush, then read_line: flush is only called after a
\* successful write_str, the read only begins after a successful flush, and
\* a successful call has made exactly one write_str and exactly one flush.
C13_WriteFlushReadOrder ==
    (InCall /\ ShowsPrompt) =>
        /\ (pc = "flush" \/ flush_calls > 0) =>
                /\ write_calls = 1
                /\ ~write_fails
                /\ sink = sink_before \o ExpectedPrompt
        /\ (pc = "read" \/ read_calls > 0) =>
                /\ flush_calls = 1
                /\ ~flush_fails
        /\ pc = "write" => write_calls = 0 /\ flush_calls = 0
        /\ pc \in {"write", "flush"} => read_calls = 0
        /\ (pc = "done" /\ result.kind = "Ok") =>
                write_calls = 1 /\ flush_calls = 1 /\ read_calls = 1

C13_Witness ==
    /\ pc = "done"
    /\ ShowsPrompt
    /\ result.kind = "Ok"
    /\ write_calls = 1
    /\ flush_calls = 1
    /\ read_calls = 1
    /\ buf = <<"a", "\n">>
    /\ sink = sink_before \o ExpectedPrompt

\* ------------------------------------------------------------------------
\* Relations between the two modes of process_input (SpecPI)
\* ------------------------------------------------------------------------
\* C14 as stated: for every string s, preserve-mode post-processing applied
\* to process_input(s, None, false) yields the same string again.
C14_Original ==
    (Processed /\ ~args.trim_whitespace /\ ~args.default_value.some) =>
        process_input(result.value, None, FALSE) = result.value

\* s is a line as a line source hands it out: no "\n" except as its last
\* character
IsSourceLine(s) == \A i \in 1..(Len(s) - 1) : s[i] # "\n"

\* C14 amended: for every string s with no "\n" other than as its last
\* character (a line as read_line produces it), preserve-mode
\* post-processing applied to process_input(s, None, false) yields the same
\* string again; a string ending in two terminators loses one of them at
\* each application.
C14_PreserveIdempotentOnLines ==
    (Processed /\ ~args.trim_whitespace /\ ~args.default_value.some
        /\ IsSourceLine(buf)) =>
        process_input(result.value, None, FALSE) = result.value

C14_Witness ==
    /\ Processed
    /\ ~args.trim_whitespace
    /\ ~args.default_value.some
    /\ buf = <<"a", "\r", "\r", "\n">>
    /\ result = Ok(<<"a", "\r">>)

\* s without its leading and trailing whitespace in the sense of str::trim
WhitespaceTrim(s) ==
    IF \A i \in 1..Len(s) : s[i] \in TrimmedWhitespace
    THEN <<>>
    ELSE Stripped(s, TrimmedWhitespace)

\* C15: for every input string s and no default, the trim-mode result is
\* the preserve-mode result with its remaining leading and trailing
\* whitespace removed.
C15_TrimSuperset ==
    (Processed /\ ~args.default_value.some) =>
        IF args.trim_whitespace
        THEN result.value = WhitespaceTrim(process_input(buf, None, FALSE))
        ELSE WhitespaceTrim(result.value) = process_input(buf, None, TRUE)

C15_Witness ==
    /\ Processed
    /\ ~args.default_value.some
    /\ ~args.trim_whitespace
    /\ buf = <<" ", "a", "\t", "\n">>
    /\ result = Ok(<<" ", "a", "\t">>)
    /\ process_input(buf, None, TRUE) = <<"a">>

\* ------------------------------------------------------------------------
\* The builder and the convenience entry points (Spec)
\* ------------------------------------------------------------------------
\* the arguments read_input_with_io is called with
EngineArgs(p, d, t, sh) ==
    [prompt |-> p, default_value |-> d, trim_whitespace |-> t,
     show_prompt |-> sh]

\* what read_input_with_io(p, d, t, sh, reader, writer) returns on the
\* reader and writer as the current call found them
EngineResult(p, d, t, sh) ==
    IF sh /\ p # <<>> /\ write_fails THEN Err("WriteError")
    ELSE IF sh /\ p # <<>> /\ flush_fails THEN Err("FlushError")
    ELSE IF reader_fails THEN Err("ReadError")
    ELSE Ok(process_input(IF source_before = <<>>
                          THEN <<>>
                          ELSE Head(source_before), d, t))

\* what the sink holds after read_input_with_io(p, d, t, sh, reader, writer)
EngineSink(p, d, sh) ==
    IF sh /\ p # <<>> /\ ~write_fails
    THEN sink_before \o prompt_text(p, d)
    ELSE sink_before

\* the current call has returned what the engine gives for these arguments
BehavesAs(p, d, t, sh) ==
    /\ result = EngineResult(p, d, t, sh)
    /\ sink = EngineSink(p, d, sh)

\* C16: Input::new(prompt) with no setter called has trim = true, no
\* default and show_prompt = (prompt is non-empty), and read_with_io on it
\* gives the result and the sink output of
\* read_input_with_io(prompt, None, true, prompt != "", reader, writer).
C16_NewDefaults ==
    (entry = "builder" /\ setter_calls = 0 /\ pc # "idle") =>
        /\ args = EngineArgs(given.comment, None, TRUE, given.comment # <<>>)
        /\ pc = "done" =>
                BehavesAs(given.comment, None, TRUE, given.comment # <<>>)

C16_Witness ==
    /\ entry = "builder"
    /\ setter_calls = 0
    /\ pc = "done"
    /\ given.comment = <<"P">>
    /\ buf = <<" ", "\n">>
    /\ result = Ok(<<>>)
    /\ sink = sink_before \o <<"P", ":">>

\* C17: the setters default, trim and show_prompt are settable in any
\* order: from every configuration a builder is in, and for every choice of
\* values, all orders of the same setter calls give the same configuration;
\* the configuration alone decides the result and the sink output of
\* read_with_io.
C17_SettersCommute ==
    /\ pc = "building" =>
        \A v \in DefaultTexts, t \in BOOLEAN, sh \in BOOLEAN :
            LET D(c) == Input_default(c, v)
                T(c) == Input_trim(c, t)
                S(c) == Input_show_prompt(c, sh)
                all == EngineArgs(args.prompt, Some(v), t, sh)
            IN /\ D(T(S(args))) = all
               /\ D(S(T(args))) = all
               /\ T(D(S(args))) = all
               /\ T(S(D(args))) = all
               /\ S(D(T(args))) = all
               /\ S(T(D(args))) = all
               /\ D(T(args)) = T(D(args))
               /\ D(S(args)) = S(D(args))
               /\ T(S(args)) = S(T(args))
    /\ (entry = "builder" /\ pc = "done") =>
            BehavesAs(args.prompt, args.default_value,
                      args.trim_whitespace, args.show_prompt)

C17_Witness ==
    /\ entry = "builder"
    /\ pc = "done"
    /\ setter_calls = 3
    /\ args = EngineArgs(<<"P">>, Some(<<"d">>), FALSE, FALSE)
    /\ buf = <<"\r", "\n">>
    /\ result = Ok(<<"d">>)
    /\ sink = sink_before

\* C18 as stated: input_with_default(prompt, default) runs the engine with
\* trim = true, showPrompt = true always (whatever the prompt is), and
\* default = Some(default).
C18_Original ==
    (InCall /\ entry = "input_with_default") =>
        args = EngineArgs(given.comment, given.default, TRUE, TRUE)

\* C18 amended: input_with_default(prompt, default) runs the engine with
\* trim = true, default = Some(default) and showPrompt = (prompt is
\* non-empty); as the engine shows no empty prompt, the result and the sink
\* output are those of showPrompt = true.
C18_InputWithDefault ==
    (InCall /\ entry = "input_with_default") =>
        /\ given.default.some
        /\ args = EngineArgs(given.comment, given.default, TRUE,
                             given.comment # <<>>)
        /\ pc = "done" =>
                BehavesAs(given.comment, given.default, TRUE, TRUE)

C18_Witness ==
    /\ entry = "input_with_default"
    /\ pc = "done"
    /\ given.comment = <<>>
    /\ given.default = Some(<<"d">>)
    /\ ~args.show_prompt
    /\ buf = <<"\n">>
    /\ result = Ok(<<"d">>)
    /\ sink = sink_before

\* C19: input(prompt) behaves as the engine with trim = true, showPrompt =
\* (prompt non-empty) and no default; input_trim(prompt, t) behaves as the
\* engine with trim = t, showPrompt = (prompt non-empty) and no default.
C19_InputAndInputTrim ==
    /\ (InCall /\ entry = "input") =>
        /\ args = EngineArgs(given.comment, None, TRUE, given.comment # <<>>)
        /\ pc = "done" =>
                BehavesAs(given.comment, None, TRUE, given.comment # <<>>)
    /\ (InCall /\ entry = "input_trim") =>
        /\ args = EngineArgs(given.comment, None, given.trim_whitespace,
                             given.comment # <<>>)
        /\ pc = "done" =>
                BehavesAs(given.comment, None, given.trim_whitespace,
                          given.comment # <<>>)

C19_Witness ==
    /\ entry = "input_trim"
    /\ pc = "done"
    /\ given = Given(<<"P">>, None, FALSE)
    /\ buf = <<" ", "\n">>
    /\ result = Ok(<<" ">>)
    /\ sink = sink_before \o <<"P", ":">>

\* C20: in any single call write_str is called at most once, flush at most
\* once and read_line at most once, no step is retried after a failure, and
\* the sink after the call is the sink before it followed by either nothing
\* or the rendered prompt.
C20_SingleAttemptFrame ==
    InCall =>
        /\ write_calls <= 1
        /\ flush_calls <= 1
        /\ read_calls <= 1
        /\ sink \in {sink_before, sink_before \o ExpectedPrompt}
        /\ (pc = "done" /\ result.kind # "Ok") =>
                /\ result.kind = "WriteError" =>
                        write_calls = 1 /\ flush_calls = 0 /\ read_calls = 0
                /\ result.kind = "FlushError" =>
                        write_calls = 1 /\ flush_calls = 1 /\ read_calls = 0
                /\ result.kind = "ReadError" => read_calls = 1

C20_Witness ==
    /\ pc = "done"
    /\ ShowsPrompt
    /\ flush_fails
    /\ result = Err("FlushError")
    /\ write_calls = 1
    /\ flush_calls = 1
    /\ read_calls = 0
    /\ sink = sink_before \o ExpectedPrompt
    /\ calls = 2

\* ------------------------------------------------------------------------
\* Properties of InputError (SpecErr)
\* ------------------------------------------------------------------------
\* the documented prefix of each kind of error
DocumentedPrefix(kind) ==
    IF kind = "WriteError" THEN <<"Failed to write to stdout">>
    ELSE IF kind = "FlushError" THEN <<"Failed to flush stdout">>
    ELSE <<"Failed to read from stdin">>

\* C21: every InputError variant renders as its kind-specific prefix, then
\* ": ", then the message of the underlying I/O error, and its source() is
\* the wrapped underlying error, for all three variants.
C21_ErrorDisplayAndSource ==
    /\ pc \in {"formatted", "inspected"} =>
            sink = DocumentedPrefix(result.kind) \o <<":", " ">>
                        \o result.value
    /\ pc \in {"sourced", "inspected"} =>
            cause.some /\ cause.value = result.value

C21_Witness ==
    /\ pc = "inspected"
    /\ result = InputError("FlushError", <<"a", " ", "a">>)
    /\ sink = <<"Failed to flush stdout", ":", " ", "a", " ", "a">>
    /\ cause = Some(<<"a", " ", "a">>)

C25_EmptyDefaultIsNoDefault ==
    (pc = "done" /\ args.default_value = Some(<<>>)) =>
        BehavesAs(args.prompt, None, args.trim_whitespace, args.show_prompt)

C25_Witness ==
    /\ pc = "done"
    /\ args.default_value = Some(<<>>)
    /\ ShowsPrompt
    /\ ~args.trim_whitespace
    /\ buf = <<"\n">>
    /\ result = Ok(<<>>)
    /\ sink = sink_before \o args.prompt \o <<":">>

\* C26: with a present, non-empty default process_input never returns the
\* empty string, for every raw input and both values of the trim flag.
C26_NonEmptyDefaultNonEmptyResult ==
    (Processed /\ args.default_value.some
               /\ args.default_value.value # <<>>) =>
        /\ result.kind = "Ok"
        /\ result.value # <<>>

C26_Witness ==
    /\ Processed
    /\ args.default_value = Some(<<" ", "a">>)
    /\ args.trim_whitespace
    /\ buf = <<" ", "\t", "\r", "\n">>
    /\ result = Ok(<<" ", "a">>)

\* C27: in preserve mode a carriage return not followed by "\n" is not a
\* terminator: a raw input ending in a lone "\r" is returned unchanged, and
\* a raw input of exactly "\r" is not replaced by a present default.
C27_LoneCarriageReturnKept ==
    (Processed /\ ~args.trim_whitespace /\ buf # <<>>
               /\ buf[Len(buf)] = "\r") =>
        /\ result = Ok(buf)
        /\ (buf = <<"\r">> /\ args.default_value.some) =>
                result.value = <<"\r">>

C27_Witness ==
    /\ Processed
    /\ ~args.trim_whitespace
    /\ buf = <<"\r">>
    /\ args.default_value = Some(<<"a">>)
    /\ result = Ok(<<"\r">>)

\* the default is substituted for this raw line
Substituted(raw, d, t) ==
    /\ d.some
    /\ IF t THEN WhitespaceTrim(raw) = <<>> ELSE raw \in OnlyTerminator

\* C28: for every raw line as a line source can produce it (at most one
\* "\n", and only as its last character), when no default is substituted
\* the result of process_input contains no "\n", in either mode.
C28_TerminatorNeverReachesCaller ==
    (Processed /\ IsSourceLine(buf)
               /\ ~Substituted(buf, args.default_value,
                               args.trim_whitespace)) =>
        \A i \in 1..Len(result.value) : result.value[i] # "\n"

C28_Witness ==
    /\ Processed
    /\ ~args.trim_whitespace
    /\ args.default_value = Some(<<"a", "\n">>)
    /\ buf = <<" ", "a", "\r", "\n">>
    /\ result = Ok(<<" ", "a">>)

C30_ReadFailureKeepsPrompt ==
    /\ (pc = "done" /\ result.kind = "ReadError" /\ ShowsPrompt) =>
            /\ sink = sink_before \o ExpectedPrompt
            /\ write_calls = 1
            /\ flush_calls = 1
            /\ ~write_fails
            /\ ~flush_fails
    /\ (pc = "done" /\ result.kind \in {"WriteError", "FlushError"}) =>
            /\ read_calls = 0
            /\ buf = <<>>
            /\ source = source_before

C30_Witness ==
    /\ pc = "done"
    /\ result = Err("ReadError")
    /\ ShowsPrompt
    /\ args.default_value = Some(<<"d">>)
    /\ sink = <<"P", " ", "[", "d", "]", ":">>
    /\ source # <<>>

\* ------------------------------------------------------------------------
\* Two calls at once (SpecC)
\* ------------------------------------------------------------------------
\* what the call with arguments a returns and leaves behind when it runs
\* alone on a source holding src, an empty sink and the given failures
Alone(a, src, wf, ff, rf) ==
    LET shown == a.show_prompt /\ a.prompt # <<>>
        rendered == IF a.default_value.some /\ a.default_value.value # <<>>
                    THEN a.prompt \o <<" ", "[">> \o a.default_value.value
                                  \o <<"]", ":">>
                    ELSE a.prompt \o <<":">>
        written == IF shown THEN rendered ELSE <<>>
    IN  IF shown /\ wf
        THEN [result |-> Err("WriteError"), sink |-> <<>>, source |-> src]
        ELSE IF shown /\ ff
        THEN [result |-> Err("FlushError"), sink |-> written, source |-> src]
        ELSE IF rf
        THEN [result |-> Err("ReadError"), sink |-> written, source |-> src]
        ELSE IF src = <<>>
        THEN [result |-> Ok(process_input(<<>>, a.default_value,
                                          a.trim_whitespace)),
              sink |-> written, source |-> <<>>]
        ELSE [result |-> Ok(process_input(Head(src), a.default_value,
                                          a.trim_whitespace)),
              sink |-> written, source |-> Tail(src)]

\* C22: two calls running concurrently on independent source / sink pairs
\* do not interfere: in every interleaving of their write, flush and read
\* steps each call returns the same result and leaves the same sink output
\* and source position as when it runs alone.
C22_ConcurrentCallsIndependent ==
    /\ pc = "done" =>
          [result |-> result, sink |-> sink, source |-> source]
            = Alone(args, lines, write_fails, flush_fails, reader_fails)
    /\ other.pc = "done" =>
          [result |-> other.result, sink |-> other.sink,
           source |-> other.source]
            = Alone(other.args, other.lines, other.write_fails,
                    other.flush_fails, other.reader_fails)

C22_Witness ==
    /\ pc = "done"
    /\ other.pc = "done"
    /\ other.overlapped
    /\ lines = <<<<"a", "\n">>>>
    /\ other.lines = <<<<" ", "\n">>, <<"a">>>>
    /\ result = Ok(<<"a">>)
    /\ other.result = Ok(<<"d">>)
    /\ sink = <<"P", ":">>
    /\ other.sink = <<"P", " ", "[", "d", "]", ":">>
    /\ source = <<>>
    /\ other.source = <<<<"a">>>>

\* ------------------------------------------------------------------------
\* The demo program (SpecDemo)
\* ------------------------------------------------------------------------
\* the five input steps of the demo, in their order
DemoOrder ==
    <<[entry |-> "input",
       given |-> Given(<<"Enter your name">>, None, TRUE)],
      [entry |-> "input_with_default",
       given |-> Given(<<"Enter port">>, Some(<<"8", "0", "8", "0">>), TRUE)],
      [entry |-> "input_trim",
       given |-> Given(<<"Enter text (whitespace preserved)">>, None, FALSE)],
      [entry |-> "input_trim",
       given |-> Given(<<"Enter text (whitespace trimmed)">>, None, TRUE)],
      [entry |-> "input", given |-> Given(<<>>, None, TRUE)]>>

\* the completion message is on stdout
CompletionPrinted ==
    \E i \in 1..Len(sink) : sink[i] = "Demo completed successfully!"

\* the steps main has finished
Performed == demo.performed

\* C24: the demo performs its five input steps in a fixed order; at the
\* first step that returns an error it prints the error and returns without
\* performing any later step; the completion message is printed only when
\* all five steps succeeded.
C24_DemoStepsInOrderAbortOnError ==
    /\ calls <= 5
    /\ Len(Performed) \in {calls, calls - 1}
    /\ \A i \in 1..Len(Performed) :
          /\ Performed[i].entry = DemoOrder[i].entry
          /\ Performed[i].given = DemoOrder[i].given
          /\ i < Len(Performed) => Performed[i].ok
    /\ pc # "idle" =>
          /\ Len(Performed) = calls - 1
          /\ entry = DemoOrder[calls].entry
          /\ given = DemoOrder[calls].given
          /\ \A i \in 1..Len(Performed) : Performed[i].ok
    /\ (Len(Performed) > 0 /\ ~Performed[Len(Performed)].ok) =>
          /\ demo.at = "returned"
          /\ pc = "idle"
          /\ calls = Len(Performed)
          /\ demo.stderr # <<>>
          /\ ~CompletionPrinted
    /\ demo.at = "returned" =>
          Len(Performed) > 0 /\ ~Performed[Len(Performed)].ok
    /\ demo.stderr # <<>> => demo.at = "returned"
    /\ CompletionPrinted =>
          /\ demo.at = "completed"
          /\ Len(Performed) = 5
          /\ \A i \in 1..5 : Performed[i].ok

C24_Witness ==
    /\ demo.at = "returned"
    /\ Len(Performed) = 3
    /\ Performed[1].ok
    /\ Performed[2].ok
    /\ ~Performed[3].ok
    /\ result = Err("FlushError")
    /\ calls = 3
    /\ demo.stderr = <<"Error reading text: ", "Failed to flush stdout",
                       ":", " ", "\n">>

====
